---------------------------- MODULE Spec2Model ----------------------------
(***************************************************************************)
(* openplace: the WebSocket room server (server.ts), the pixel placement   *)
(* HTTP handler (pages/api/canvas/[id]/place.ts with lib/db placePixel),   *)
(* and the browser side (hooks/useWebSocket, pages/canvas/[id].tsx).       *)
(*                                                                         *)
(* Nine specifications share the variables:                                *)
(*   SpecRoom      - the connection registry and broadcast fan-out         *)
(*   SpecPlace     - placement requests, the pixel store, the broadcast hop*)
(*   SpecValidate  - one placement request and the read of the canvas      *)
(*   SpecFree      - placement on a canvas that has no cooldown            *)
(*   SpecHeartbeat - the server's heartbeat sweep over one room            *)
(*   SpecClient    - the client's socket life cycle (reconnect, disconnect)*)
(*   SpecOrder     - the order of the broadcasts handed to a room's members*)
(*   SpecPage      - the page's pixels map: events, effect, own placements *)
(*   SpecBeat      - the client's 45 s heartbeat timer against the clock   *)
(***************************************************************************)
EXTENDS Integers, Sequences, FiniteSets, TLC

VARIABLES
    canvasConnections,  \* server.ts: Map<string, Set<ws>>, a partial function
    wsock,              \* server.ts: the fields kept on each socket object
    sent,               \* per connection: what the last handler passed to ws.send()
    lastIssue,          \* the broadcastToCanvas call of the last handler, if any
    lastJoin,           \* what the last handler saw and reported, if it was a join
    lastHandled,        \* the socket and kind of the message the last handler was given
    tracing,            \* whether the run keeps the record below
    issued,             \* the broadcasts issued so far, counted per message
    wire,               \* per connection: the broadcast messages passed to ws.send, in order
    now,                \* Date.now(), in ms
    req,                \* place.ts: the placement requests and where their handlers are
    pixels,             \* the pixels table, keyed by (canvas_id, x, y)
    received,           \* per connection: the pixel_placed events that reached its client
    cooldownRemaining,  \* canvas/[id].tsx: the page's cooldown counter, in seconds
    selectedColor,      \* canvas/[id].tsx: the page's selected color
    lastRead,           \* api/canvas/[id].ts: the last answer of the canvas-state read
    wsRef,              \* useWebSocket: readyState of wsRef.current, or "null"
    staleSockets,       \* sockets dropped from wsRef whose close event is still to come
    reconnectTimeout,   \* useWebSocket: the retry timer and its delay
    heartbeatTimeout,   \* useWebSocket: whether the 45 s heartbeat timer is pending
    reconnectAttempts,  \* useWebSocket: reconnectAttempts.current
    isManuallyClosed,   \* useWebSocket: isManuallyClosedRef.current
    connectionState,    \* useWebSocket: connectionState
    isConnected,        \* useWebSocket: isConnected
    autoAttempts,       \* sockets created by the retry timer since the last open or manual call
    lastClose,          \* the last close event handled, and the last manual disconnect
    nextSweep,          \* server.ts: when the heartbeat's setInterval fires next, in ms
    lastSweep,          \* what the last heartbeat sweep found and did
    lastMessage,        \* useWebSocket: lastMessage, with the number of its arrival
    heard,              \* the pixel_placed events onmessage has been called with
    handledNo,          \* canvas/[id].tsx: the lastMessage its effect last ran for
    pagePixels,         \* canvas/[id].tsx: the page's pixels map, keyed by (x, y)
    appliedNos,         \* the events, by number, the page's effect has put in the map
    lastEffect,         \* the last run of the page's effect on lastMessage
    placing,            \* canvas/[id].tsx: the calls of placePixel awaiting their fetch
    beatAge,            \* useWebSocket: ms since the heartbeat timer was last started
    quiet,              \* ms since the client's socket opened or was last given a message
    lastTimeout,        \* the last firing of the heartbeat timer, and `quiet` at it
    lastOpen            \* what the last onopen found, set and sent

heartVars == <<nextSweep, lastSweep>>

roomVars == <<canvasConnections, wsock, sent, lastIssue, lastJoin, lastHandled,
              tracing, issued, wire>>
placeVars == <<req, pixels, received, cooldownRemaining, selectedColor, lastRead>>
clientVars == <<wsRef, staleSockets, reconnectTimeout, heartbeatTimeout,
                reconnectAttempts, isManuallyClosed, connectionState, isConnected,
                autoAttempts, lastClose>>
pageVars == <<lastMessage, heard, handledNo, pagePixels, appliedNos, lastEffect, placing>>
timeVars == <<beatAge, quiet, lastTimeout, lastOpen>>
vars == <<roomVars, now, placeVars, clientVars, heartVars, pageVars, timeVars>>

-----------------------------------------------------------------------------
(* Bounds of the model *)

\* server-side connections
NumConns == 3

-----------------------------------------------------------------------------
(* Values *)

Conns == 1..NumConns
NoWs == 0
Canvases == {"A", "B"}
\* a canvasId that is absent from the query string or the join_canvas message
Undefined == "undefined"
UserOf(c) == IF c = 1 THEN "alice" ELSE IF c = 2 THEN "bob" ELSE "anonymous"
NoPixel == [x |-> -1, y |-> -1, color |-> "none", user |-> "none", timestamp |-> -1]

\* readyState of a server-side socket: 1 = OPEN (server.ts:93). The model also
\* uses 3 (CLOSED) and 0 for a connection that has not been made yet.
OPEN == 1

Message(type, canvasId, count, pixel) ==
    [type |-> type, canvasId |-> canvasId, count |-> count, pixel |-> pixel]

NoMessage == Message("none", Undefined, 0, NoPixel)

FreshSocket ==
    [readyState |-> 0, canvasId |-> Undefined, userId |-> Undefined,
     isAlive |-> FALSE, lastPong |-> 0]

NothingSent == [c \in Conns |-> <<>>]

\* the members of a room
RoomsOfCanvas(id) == IF id \in DOMAIN canvasConnections THEN canvasConnections[id] ELSE {}

\* the rooms that hold connection c
RoomsOf(c) == {id \in DOMAIN canvasConnections : c \in canvasConnections[id]}

-----------------------------------------------------------------------------
(* server.ts: broadcastToCanvas(canvasId, message, excludeWs)               *)
(* `throws` is the set of sockets whose ws.send() raises during this call.  *)
(* The result is the registry and the per-connection sends after the call.  *)

Targets(conns, canvasId, excludeWs) ==
    IF canvasId \in DOMAIN conns THEN conns[canvasId] \ {excludeWs} ELSE {}

OpenTargets(conns, socks, canvasId, excludeWs) ==
    {w \in Targets(conns, canvasId, excludeWs) : socks[w].readyState = OPEN}

\* a mutant: the first failing send aborts the loop, nobody is cleaned up
BroadcastAbortOnThrow(conns, socks, out, canvasId, message, excludeWs, throws) ==
    IF canvasId \notin DOMAIN conns
    THEN [conns |-> conns, out |-> out, raised |-> FALSE, order |-> <<message>>]
    ELSE LET open == OpenTargets(conns, socks, canvasId, excludeWs)
         IN  IF open \cap throws # {}
             THEN [conns |-> conns, out |-> out, raised |-> TRUE, order |-> <<message>>]
             ELSE [conns |-> conns,
                   out |-> [w \in Conns |->
                              IF w \in open THEN Append(out[w], message) ELSE out[w]],
                   raised |-> FALSE, order |-> <<message>>]

\* a mutant: a failing send removes the member at once and broadcasts the new
\* count from inside the loop, before the members after it (in the order of
\* their numbers) have been sent the message
BroadcastNested(conns, socks, out, canvasId, message, excludeWs, throws) ==
    IF canvasId \notin DOMAIN conns
    THEN [conns |-> conns, out |-> out, raised |-> FALSE, order |-> <<message>>]
    ELSE LET open == OpenTargets(conns, socks, canvasId, excludeWs)
             ok == open \ throws
             dead == Targets(conns, canvasId, excludeWs) \ ok
             failed == open \cap throws
             first == IF failed = {} THEN NoWs
                      ELSE CHOOSE w \in failed : \A v \in failed : w <= v
             update == [message EXCEPT !.type = "user_count_update",
                                       !.count = Cardinality(conns[canvasId] \ dead)]
         IN  [conns |-> [conns EXCEPT ![canvasId] = @ \ dead],
              out |-> [w \in Conns |->
                         IF w \notin ok THEN out[w]
                         ELSE IF failed = {} THEN Append(out[w], message)
                         ELSE IF w < first
                              THEN Append(Append(out[w], message), update)
                              ELSE Append(Append(out[w], update), message)],
              raised |-> FALSE,
              order |-> IF failed = {} THEN <<message>> ELSE <<message, update>>]

\* a mutant: the message is sent once per member to every member (a nested loop)
BroadcastTwice(conns, socks, out, canvasId, message, excludeWs, throws) ==
    IF canvasId \notin DOMAIN conns
    THEN [conns |-> conns, out |-> out, raised |-> FALSE, order |-> <<message>>]
    ELSE LET open == OpenTargets(conns, socks, canvasId, excludeWs)
             ok == open \ throws
             dead == Targets(conns, canvasId, excludeWs) \ ok
         IN  [conns |-> [conns EXCEPT ![canvasId] = @ \ dead],
              out |-> [w \in Conns |->
                         IF w \in ok
                         THEN IF Cardinality(ok) > 1
                              THEN Append(Append(out[w], message), message)
                              ELSE Append(out[w], message)
                         ELSE out[w]],
              raised |-> FALSE, order |-> <<message>>]

\* `raised` tells whether an exception leaves the call: every send is inside
\* its own try/catch (lines 95-101), so none does.
BroadcastToCanvas(conns, socks, out, canvasId, message, excludeWs, throws) ==
    IF canvasId \notin DOMAIN conns
    THEN [conns |-> conns, out |-> out, raised |-> FALSE, order |-> <<message>>]
    ELSE LET open == OpenTargets(conns, socks, canvasId, excludeWs)
             ok == open \ throws
             \* deadConnections: a send that threw, or a socket that is not open
             dead == Targets(conns, canvasId, excludeWs) \ ok
         IN  [conns |-> [conns EXCEPT ![canvasId] = @ \ dead],
              out |-> [w \in Conns |->
                         IF w \in ok THEN Append(out[w], message) ELSE out[w]],
              raised |-> FALSE, order |-> <<message>>]

\* what one broadcastToCanvas call was given and found; `returned` records that
\* the call came back to its caller
IssueRecord(conns, socks, canvasId, message, excludeWs, throws, b) ==
    [called |-> TRUE, returned |-> ~b.raised, canvasId |-> canvasId, message |-> message,
     exclude |-> excludeWs,
     members |-> Targets(conns, canvasId, excludeWs),
     open |-> OpenTargets(conns, socks, canvasId, excludeWs),
     threw |-> OpenTargets(conns, socks, canvasId, excludeWs) \cap throws,
     order |-> b.order]

NoIssue ==
    [called |-> FALSE, returned |-> FALSE, canvasId |-> Undefined,
     message |-> NoMessage, exclude |-> NoWs, members |-> {}, open |-> {},
     threw |-> {}, order |-> <<>>]

\* the sockets whose send may raise in a call: any subset of the open targets
Throwers(conns, socks, canvasId, excludeWs) ==
    SUBSET OpenTargets(conns, socks, canvasId, excludeWs)

-----------------------------------------------------------------------------
(* server.ts: handleWebSocketMessage, case "join_canvas" (lines 24-56)      *)

\* lines 31-34: create the room if absent, add the socket to its Set
RoomAdd(conns, canvasId, c) ==
    IF canvasId \in DOMAIN conns
    THEN [conns EXCEPT ![canvasId] = @ \cup {c}]
    ELSE conns @@ (canvasId :> {c})

\* a mutant: the viewer count is kept incrementally, one more for every join
ClientCountIncrement(before, after, canvasId) ==
    IF canvasId \in DOMAIN before THEN Cardinality(before[canvasId]) + 1 ELSE 1

\* line 36: clientCount = canvasConnections.get(canvasId).size, read after the add
ClientCount(before, after, canvasId) ==
    Cardinality(after[canvasId])

SizeOf(conns, canvasId) ==
    IF canvasId \in DOMAIN conns THEN Cardinality(conns[canvasId]) ELSE 0

NoHandled == [conn |-> NoWs, kind |-> "none"]

\* the place of message m among the broadcasts of a handler, 0 if it is none
PlaceIn(order, m) ==
    IF \E i \in 1..Len(order) : order[i] = m
    THEN CHOOSE i \in 1..Len(order) : order[i] = m
    ELSE 0

\* the broadcast messages of `out` in their order, numbered by their issue
Numbered(out, order, base) ==
    LET RECURSIVE Walk(_)
        Walk(i) ==
            IF i > Len(out) THEN <<>>
            ELSE IF PlaceIn(order, out[i]) = 0 THEN Walk(i + 1)
            ELSE <<[no |-> base + PlaceIn(order, out[i]), type |-> out[i].type,
                    canvasId |-> out[i].canvasId]>> \o Walk(i + 1)
    IN  Walk(1)

\* the record of what each socket was handed, kept when the run is traced
Trace ==
    /\ UNCHANGED tracing
    /\ issued' = IF tracing THEN issued + Len(lastIssue'.order) ELSE issued
    /\ wire' = IF tracing
               THEN [c \in Conns |->
                       wire[c] \o Numbered(sent'[c], lastIssue'.order, issued)]
               ELSE wire

NoJoin ==
    [called |-> FALSE, conn |-> NoWs, canvasId |-> Undefined, wasMember |-> FALSE,
     sizeBefore |-> 0, sizeAfter |-> 0, reported |-> 0, welcomed |-> FALSE]

\* The join handler on socket c whose fields are already `socks`.
\* welcomeThrows: ws.send of the "connected" message raises; the handler's
\* try/catch swallows it and the count broadcast is skipped.
JoinCanvas(c, socks, canvasId, welcomeThrows) ==
    LET socks1 == [socks EXCEPT ![c].canvasId = canvasId,
                                ![c].userId = UserOf(c),
                                ![c].isAlive = TRUE,
                                ![c].lastPong = now]
        conns1 == RoomAdd(canvasConnections, canvasId, c)
        clientCount == ClientCount(canvasConnections, conns1, canvasId)
        welcome == Message("connected", canvasId, clientCount, NoPixel)
        out1 == [NothingSent EXCEPT ![c] = <<welcome>>]
        update == Message("user_count_update", canvasId, clientCount, NoPixel)
        report == [called |-> TRUE, conn |-> c, canvasId |-> canvasId,
                   wasMember |-> (canvasId \in DOMAIN canvasConnections
                                  /\ c \in canvasConnections[canvasId]),
                   sizeBefore |-> SizeOf(canvasConnections, canvasId),
                   sizeAfter |-> SizeOf(conns1, canvasId),
                   reported |-> clientCount,
                   welcomed |-> ~welcomeThrows]
    IN  /\ wsock' = socks1
        /\ lastJoin' = report
        /\ lastHandled' = NoHandled
        /\ IF welcomeThrows
           THEN /\ canvasConnections' = conns1
                /\ sent' = NothingSent
                /\ lastIssue' = NoIssue
           ELSE \E throws \in Throwers(conns1, socks1, canvasId, NoWs) :
                  LET b == BroadcastToCanvas(conns1, socks1, out1, canvasId, update,
                                             NoWs, throws)
                  IN  /\ canvasConnections' = b.conns
                      /\ sent' = b.out
                      /\ lastIssue' = IssueRecord(conns1, socks1, canvasId, update,
                                                  NoWs, throws, b)

\* fetch "/ws" (lines 223-239) and websocket.open (lines 281-298): a missing
\* canvasId is answered 400 and never upgraded; otherwise the socket opens and
\* auto-joins with the query's canvasId. Connections are made in the order of
\* their numbers.
Upgrade(c, canvasId) ==
    /\ wsock[c].readyState = 0
    /\ \A d \in Conns : wsock[d].readyState = 0 => c <= d
    /\ UNCHANGED <<now, placeVars, clientVars, heartVars, pageVars, timeVars>>
    /\ IF canvasId = Undefined
       THEN /\ sent' = NothingSent
            /\ lastIssue' = NoIssue
            /\ lastJoin' = NoJoin
            /\ lastHandled' = NoHandled
            /\ UNCHANGED <<canvasConnections, wsock>>
       ELSE \E welcomeThrows \in BOOLEAN :
              JoinCanvas(c,
                         [wsock EXCEPT ![c].readyState = OPEN,
                                       ![c].isAlive = TRUE,
                                       ![c].lastPong = now],
                         canvasId, welcomeThrows)
    /\ Trace

\* websocket.message with a join_canvas message (lines 300-306, 24-56)
JoinMessage(c, canvasId) ==
    /\ wsock[c].readyState = OPEN
    /\ UNCHANGED <<now, placeVars, clientVars, heartVars, pageVars, timeVars>>
    /\ \E welcomeThrows \in BOOLEAN : JoinCanvas(c, wsock, canvasId, welcomeThrows)
    /\ Trace

\* a mutant: a message that cannot be parsed closes the socket
CatchMessageErrorCloses(socks, c) == [socks EXCEPT ![c].readyState = 3]

\* lines 76-79: JSON.parse threw; the error is logged, the socket is left alone
CatchMessageError(socks, c) == socks

\* websocket.message with ping / pong / pixel_placed / unknown type / bad JSON
\* (lines 58-79)
OtherMessage(c, kind) ==
    /\ wsock[c].readyState = OPEN
    /\ UNCHANGED <<canvasConnections, now, placeVars, clientVars, heartVars, pageVars, timeVars>>
    /\ lastIssue' = NoIssue
    /\ lastJoin' = NoJoin
    /\ lastHandled' = [conn |-> c, kind |-> kind]
    /\ CASE kind = "ping" ->
              /\ wsock' = [wsock EXCEPT ![c].isAlive = TRUE, ![c].lastPong = now]
              /\ \E pongThrows \in BOOLEAN :
                    sent' = IF pongThrows THEN NothingSent
                            ELSE [NothingSent EXCEPT ![c] =
                                    <<Message("pong", Undefined, 0, NoPixel)>>]
         [] kind = "pong" ->
              /\ wsock' = [wsock EXCEPT ![c].isAlive = TRUE, ![c].lastPong = now]
              /\ sent' = NothingSent
         [] kind = "badjson" ->
              /\ wsock' = CatchMessageError(wsock, c)
              /\ sent' = NothingSent
         [] OTHER ->
              /\ sent' = NothingSent
              /\ UNCHANGED wsock
    /\ Trace

-----------------------------------------------------------------------------
(* server.ts: removeClient (lines 122-143), called by websocket.close       *)

\* websocket.close (lines 308-311): the socket is closed, removeClient runs
SocketClosed(c) ==
    /\ UNCHANGED <<now, placeVars, clientVars, heartVars, pageVars, timeVars>>
    /\ lastJoin' = NoJoin
    /\ lastHandled' = NoHandled
    /\ wsock' = [wsock EXCEPT ![c].readyState = 3]
    /\ LET id == wsock[c].canvasId
       IN  IF id # Undefined /\ id \in DOMAIN canvasConnections
           THEN LET connections == canvasConnections[id] \ {c}
                    remainingClients == Cardinality(connections)
                IN  IF remainingClients = 0
                    THEN /\ canvasConnections' =
                              [k \in DOMAIN canvasConnections \ {id} |->
                                  canvasConnections[k]]
                         /\ sent' = NothingSent
                         /\ lastIssue' = NoIssue
                    ELSE LET conns1 == [canvasConnections EXCEPT ![id] = connections]
                             update == Message("user_count_update", id,
                                               remainingClients, NoPixel)
                         IN  \E throws \in Throwers(conns1, wsock', id, NoWs) :
                               LET b == BroadcastToCanvas(conns1, wsock', NothingSent,
                                                          id, update, NoWs, throws)
                               IN  /\ canvasConnections' = b.conns
                                   /\ sent' = b.out
                                   /\ lastIssue' = IssueRecord(conns1, wsock', id,
                                                               update, NoWs, throws, b)
           ELSE /\ sent' = NothingSent
                /\ lastIssue' = NoIssue
                /\ UNCHANGED canvasConnections
    /\ Trace

\* the client, or the network, closes an open socket
Close(c) ==
    /\ wsock[c].readyState = OPEN
    /\ SocketClosed(c)

-----------------------------------------------------------------------------
(* server.ts: startHeartbeat (lines 146-210)                                *)

\* lines 14-15
heartbeatInterval == 30000
serverHeartbeatTimeout == 10000

\* readyState after ws.close() and before the close handler has run
CLOSING == 2

\* a mutant: the grace period is all a connection gets
HeartbeatExpiredAfterGrace(at, lastPong) ==
    lastPong # 0 /\ at - lastPong > serverHeartbeatTimeout

\* line 165: ws.lastPong && now - ws.lastPong > heartbeatInterval + heartbeatTimeout
HeartbeatExpired(at, lastPong) ==
    lastPong # 0 /\ at - lastPong > heartbeatInterval + serverHeartbeatTimeout

NoSweep ==
    [called |-> FALSE, at |-> 0, notOpen |-> {}, timedOut |-> {}, threw |-> {},
     pinged |-> {}, rooms |-> {}]

\* lines 153-201 for one room. st holds the registry, the sockets, the sends
\* and the record of the sweep so far; pingThrows and countThrows are the
\* sockets whose ws.send raises for the ping and for the count update.
SweepRoom(st, canvasId, at, pingThrows, countThrows) ==
    LET connections == st.conns[canvasId]
        notOpen == {w \in connections : st.socks[w].readyState # OPEN}
        timedOut == {w \in connections \ notOpen :
                        HeartbeatExpired(at, st.socks[w].lastPong)}
        threw == (connections \ (notOpen \cup timedOut)) \cap pingThrows
        pinged == connections \ (notOpen \cup timedOut \cup threw)
        deadWs == notOpen \cup timedOut \cup threw
        ping == Message("ping", Undefined, 0, NoPixel)
        \* ws.isAlive = false for the pinged, ws.close() for the dead
        socks1 == [w \in Conns |->
                     IF w \in pinged THEN [st.socks[w] EXCEPT !.isAlive = FALSE]
                     ELSE IF w \in deadWs /\ st.socks[w].readyState = OPEN
                          THEN [st.socks[w] EXCEPT !.readyState = CLOSING]
                     ELSE st.socks[w]]
        out1 == [w \in Conns |->
                   IF w \in pinged THEN Append(st.out[w], ping) ELSE st.out[w]]
        remaining == connections \ deadWs
        conns1 == [st.conns EXCEPT ![canvasId] = remaining]
        update == Message("user_count_update", canvasId, Cardinality(remaining), NoPixel)
        b == BroadcastToCanvas(conns1, socks1, out1, canvasId, update, NoWs, countThrows)
        room == [id |-> canvasId, dead |-> deadWs, remaining |-> remaining,
                 count |-> Cardinality(remaining),
                 notified |-> IF remaining # {} /\ deadWs # {}
                              THEN {w \in Conns : b.out[w] # out1[w]} ELSE {},
                 countThrew |-> remaining \cap countThrows]
        seen == [called |-> TRUE, at |-> at,
                 notOpen |-> st.seen.notOpen \cup notOpen,
                 timedOut |-> st.seen.timedOut \cup timedOut,
                 threw |-> st.seen.threw \cup threw,
                 pinged |-> st.seen.pinged \cup pinged,
                 rooms |-> st.seen.rooms \cup {room}]
    IN  IF remaining = {}
        THEN [conns |-> [k \in DOMAIN st.conns \ {canvasId} |-> st.conns[k]],
              socks |-> socks1, out |-> out1, seen |-> seen]
        ELSE IF deadWs # {}
        THEN [conns |-> b.conns, socks |-> socks1, out |-> b.out, seen |-> seen]
        ELSE [conns |-> conns1, socks |-> socks1, out |-> out1, seen |-> seen]

\* line 152: canvasConnections.forEach
RECURSIVE SweepRooms(_, _, _, _, _)
SweepRooms(ids, st, at, pingThrows, countThrows) ==
    IF ids = {} THEN st
    ELSE LET id == CHOOSE i \in ids : TRUE
         IN  SweepRooms(ids \ {id}, SweepRoom(st, id, at, pingThrows, countThrows),
                        at, pingThrows, countThrows)

\* the sockets of the registry that are open
OpenMembers ==
    {w \in Conns : wsock[w].readyState = OPEN /\ RoomsOf(w) # {}}

\* the interval's callback runs
Sweep ==
    /\ now >= nextSweep
    /\ nextSweep' = nextSweep + heartbeatInterval
    /\ lastIssue' = NoIssue
    /\ lastJoin' = NoJoin
    /\ lastHandled' = NoHandled
    /\ \E pingThrows \in SUBSET OpenMembers, countThrows \in SUBSET OpenMembers :
          LET st == SweepRooms(DOMAIN canvasConnections,
                               [conns |-> canvasConnections, socks |-> wsock,
                                out |-> NothingSent, seen |-> NoSweep],
                               now, pingThrows, countThrows)
          IN  /\ canvasConnections' = st.conns
              /\ wsock' = st.socks
              /\ sent' = st.out
              /\ lastSweep' = [st.seen EXCEPT !.called = TRUE, !.at = now]
    /\ UNCHANGED <<now, placeVars, clientVars, pageVars, timeVars>>
    /\ Trace

\* the close handler of a socket that the sweep closed
CloseAfterSweep(c) ==
    /\ wsock[c].readyState = CLOSING
    /\ SocketClosed(c)

-----------------------------------------------------------------------------
(* server.ts: fetch "/broadcast-pixel" (lines 241-258)                      *)

PixelInputs ==
    {[x |-> 0, y |-> 0, color |-> "#FF0000", user |-> "alice", timestamp |-> 0]}

\* the endpoint's effect on the room server's own state
BroadcastPixelRequest(canvasId, pixel) ==
    /\ UNCHANGED wsock
    /\ lastJoin' = NoJoin
    /\ lastHandled' = NoHandled
    /\ \E throws \in Throwers(canvasConnections, wsock, canvasId, NoWs) :
         LET m == Message("pixel_placed", canvasId, 0, pixel)
             b == BroadcastToCanvas(canvasConnections, wsock, NothingSent, canvasId,
                                    m, NoWs, throws)
         IN  /\ canvasConnections' = b.conns
             /\ sent' = b.out
             /\ lastIssue' = IssueRecord(canvasConnections, wsock, canvasId, m,
                                         NoWs, throws, b)
    /\ Trace

\* a request to the endpoint from outside the placement handler
BroadcastPixel(canvasId, pixel) ==
    /\ BroadcastPixelRequest(canvasId, pixel)
    /\ UNCHANGED <<now, placeVars, clientVars, heartVars, pageVars, timeVars>>

-----------------------------------------------------------------------------
(* lib/db: the canvases and pixels tables; place.ts: the request's checks    *)
(*                                                                         *)
(* A coordinate is a JavaScript number. The model counts it in halves of a  *)
(* cell: 0 is 0, 3 is 1.5, 18 is 9, 20 is 10, -2 is -1.                     *)

\* placement requests of a run
NumReqs == 2
\* seconds the clock may advance in a run
MaxTicks == 2

Reqs == 1..NumReqs

\* the canvases table: A is 10x10 with a palette and a cooldown of 2 s,
\* B is 10x10 with no palette (allowed_colors NULL) and no cooldown; both are
\* open to anyone. G is a user_or_guest canvas and U a user_only canvas.
CanvasRows ==
    [A |-> [found |-> TRUE, width |-> 10, height |-> 10, placeCooldown |-> 2,
            hasAllowedColors |-> TRUE, allowedColors |-> {"#FF0000", "#00FF00"},
            authMode |-> "anyone"],
     B |-> [found |-> TRUE, width |-> 10, height |-> 10, placeCooldown |-> 0,
            hasAllowedColors |-> FALSE, allowedColors |-> {},
            authMode |-> "anyone"],
     G |-> [found |-> TRUE, width |-> 10, height |-> 10, placeCooldown |-> 0,
            hasAllowedColors |-> FALSE, allowedColors |-> {},
            authMode |-> "user_or_guest"],
     U |-> [found |-> TRUE, width |-> 10, height |-> 10, placeCooldown |-> 0,
            hasAllowedColors |-> FALSE, allowedColors |-> {},
            authMode |-> "user_only"]]

NoCanvas ==
    [found |-> FALSE, width |-> 0, height |-> 0, placeCooldown |-> 0,
     hasAllowedColors |-> FALSE, allowedColors |-> {}, authMode |-> "anyone"]

\* SELECT * FROM canvases WHERE id = ?; null when there is no row
getCanvas(id) ==
    IF id \in DOMAIN CanvasRows THEN CanvasRows[id] ELSE NoCanvas

IsInteger(h) == h % 2 = 0

\* place.ts:32, on numbers counted in halves
CoordinatesOk(x, y, canvas) ==
    ~(x < 0 \/ x >= 2 * canvas.width \/ y < 0 \/ y >= 2 * canvas.height)

\* the strings of the model that match /^#[0-9A-Fa-f]{6}$/i
HexColors == {"#FF0000", "#00FF00", "#00ff00", "#E50000"}

ColorFormatOk(color) == color \in HexColors

toUpperCase(color) ==
    IF color = "#00ff00" THEN "#00FF00" ELSE color

\* place.ts:42
ColorAllowed(color, canvas) ==
    ~(canvas.hasAllowedColors /\ toUpperCase(color) \notin canvas.allowedColors)

\* place.ts:26-44: the checks in their order; status 0 means that all passed
Validate(canvasId, x, y, color) ==
    LET canvas == getCanvas(canvasId)
    IN  IF ~canvas.found
        THEN [status |-> 404, error |-> "Canvas not found"]
        ELSE IF ~CoordinatesOk(x, y, canvas)
        THEN [status |-> 400, error |-> "Invalid coordinates"]
        ELSE IF ~ColorFormatOk(color)
        THEN [status |-> 400, error |-> "Invalid color format"]
        ELSE IF ~ColorAllowed(color, canvas)
        THEN [status |-> 400, error |-> "Color not allowed"]
        ELSE [status |-> 0, error |-> "none"]

\* the values an INTEGER column may take for a number bound as a double: the
\* number itself, or for a fraction one of its two neighbours (the rounding is
\* the database's)
StoredCoords(h) ==
    IF IsInteger(h) THEN {h \div 2} ELSE {(h - 1) \div 2, (h + 1) \div 2}

NoPixels == <<>>

\* userId || null
OrNull(v) == IF v = Undefined THEN "null" ELSE v

\* CURRENT_TIMESTAMP in a TIMESTAMP column (schema.sql:25): whole seconds
CurrentTimestamp(at) == (at \div 1000) * 1000

\* INSERT ... ON DUPLICATE KEY UPDATE color, timestamp, user_id
Upsert(table, canvasId, xs, ys, color, userId, at) ==
    (<<canvasId, xs, ys>> :> [color |-> color, user |-> userId,
                              timestamp |-> CurrentTimestamp(at)])
        @@ table

\* getCanvasPixels: SELECT x, y, color, timestamp, user_id ... WHERE canvas_id = ?
getCanvasPixels(table, canvasId) ==
    {[x |-> k[2], y |-> k[3], color |-> table[k].color,
      timestamp |-> table[k].timestamp, user |-> table[k].user] :
        k \in {k2 \in DOMAIN table : k2[1] = canvasId}}

NoRead ==
    [called |-> FALSE, canvasId |-> Undefined, status |-> 0, pixels |-> {},
     succeeded |-> {}, commits |-> 0]

IdleRequest ==
    [pc |-> "idle", canvasId |-> Undefined, x |-> 0, y |-> 0, color |-> "none",
     userId |-> Undefined, fromPage |-> FALSE, cooldownBefore |-> 0,
     cooldownAfter |-> 0, tArrive |-> 0, arrivedAfter |-> {}, arrivedDuring |-> {},
     checked |-> FALSE, status |-> 0, error |-> "none", wrote |-> FALSE, commitNo |-> 0,
     key |-> <<>>, pixel |-> NoPixel, broadcast |-> FALSE]

NothingReceived == [c \in Conns |-> <<>>]

\* useState<WebSocketMessage | null>(null)
NoLastMessage == [no |-> 0, type |-> "null", data |-> NoPixel]

NoEffect == [ran |-> FALSE, no |-> 0, data |-> NoPixel, before |-> <<>>]

\* shown: the color the page's map held at the cell when the call reached its fetch
NoPlacing == [pending |-> FALSE, key |-> <<>>, color |-> "none", shown |-> "none"]

\* the hook and the page after the first render: no message, an empty map
InitPageVars ==
    /\ lastMessage = NoLastMessage
    /\ heard = 0
    /\ handledNo = 0
    /\ pagePixels = <<>>
    /\ appliedNos = {}
    /\ lastEffect = NoEffect
    /\ placing = [r \in Reqs |-> NoPlacing]

-----------------------------------------------------------------------------
(* hooks/useWebSocket: values *)

\* line 46
maxReconnectAttempts == 10

\* sockets dropped from wsRef whose close event has not been delivered yet
MaxStaleSockets == 2

RECURSIVE Pow(_, _)
Pow(b, e) == IF e = 0 THEN 1 ELSE b * Pow(b, e - 1)

Min(a, b) == IF a < b THEN a ELSE b

\* a mutant: the retry is refused only above the maximum
CanRetryInclusive(attempts) == attempts <= maxReconnectAttempts

\* line 190
CanRetry(attempts) == attempts < maxReconnectAttempts

\* lines 191-194
ReconnectDelay(attempts) == Min(1000 * Pow(2, attempts), 30000)

\* attempt: the value of reconnectAttempts.current the delay was computed from
NoTimeout == [pending |-> FALSE, delay |-> 0, attempt |-> 0]

\* code, manual: the last close event handled and the manual flag it found;
\* disconnectedFrom, hadTimer: the state in which disconnect() was last called
\* stale: the event was that of a socket wsRef no longer holds
NoClose == [code |-> 0, manual |-> FALSE, stale |-> FALSE,
            disconnectedFrom |-> "none", hadTimer |-> FALSE]

\* the hook after its first effect has run: connect() has created the socket
NoTimeoutFired == [fired |-> FALSE, quiet |-> 0]

\* before: reconnectAttempts.current when onopen was called
NoOpen == [opened |-> FALSE, before |-> 0, connectionState |-> "none",
           reconnectAttempts |-> 0, sent |-> <<>>]

InitClientVars ==
    /\ beatAge = 0
    /\ quiet = 0
    /\ lastTimeout = NoTimeoutFired
    /\ lastOpen = NoOpen
    /\ wsRef = "CONNECTING"
    /\ staleSockets = 0
    /\ reconnectTimeout = NoTimeout
    /\ heartbeatTimeout = FALSE
    /\ reconnectAttempts = 0
    /\ isManuallyClosed = FALSE
    /\ connectionState = "connecting"
    /\ isConnected = FALSE
    /\ autoAttempts = 0
    /\ lastClose = NoClose

-----------------------------------------------------------------------------
(* The room server on its own *)

\* The canvasId in the query of a connection: connection 1 stands for a client
\* that may name any canvas or none, the others are viewers of canvas A.
UpgradeIds(c) ==
    IF c = 1 THEN Canvases \cup {Undefined} ELSE {"A"}

\* The canvasId of an explicit join_canvas message: the client hook sends the
\* canvas it connected with; connection 1 may also name another canvas or none.
JoinIds(c) ==
    IF c = 1 THEN Canvases \cup {Undefined} ELSE {wsock[c].canvasId}

InitRoom ==
    /\ canvasConnections = <<>>
    /\ wsock = [c \in Conns |-> FreshSocket]
    /\ sent = NothingSent
    /\ lastIssue = NoIssue
    /\ lastJoin = NoJoin
    /\ lastHandled = NoHandled
    /\ tracing = FALSE
    /\ issued = 0
    /\ wire = NothingSent
    /\ now = 1000
    /\ req = [r \in Reqs |-> IdleRequest]
    /\ pixels = NoPixels
    /\ received = NothingReceived
    /\ cooldownRemaining = 0
    /\ selectedColor = "#E50000"
    /\ lastRead = NoRead
    /\ InitClientVars
    /\ InitPageVars
    /\ nextSweep = now + heartbeatInterval
    /\ lastSweep = NoSweep

NextRoom ==
    \/ \E c \in Conns : \E id \in UpgradeIds(c) : Upgrade(c, id)
    \/ \E c \in Conns : \E id \in JoinIds(c) : JoinMessage(c, id)
    \/ \E c \in Conns, kind \in {"ping", "pong", "pixel_placed", "unknown", "badjson"} :
          OtherMessage(c, kind)
    \/ \E c \in Conns : Close(c)
    \/ \E id \in Canvases, pixel \in PixelInputs : BroadcastPixel(id, pixel)

SpecRoom == InitRoom /\ [][NextRoom]_vars

-----------------------------------------------------------------------------
(* pages/api/canvas/[id]/place.ts: handler; lib/db: placePixel              *)
(* A handler runs from one await to the next: getCanvas, the INSERT, the    *)
(* fetch to the room server's /broadcast-pixel.                             *)

\* lines 7-26: a POST with a string id, numbers x and y and a string color
\* reaches `await getCanvas(id)`. Requests are numbered in the order in which
\* they arrive. arrivedAfter / arrivedDuring record which other requests had
\* been written to the store, or were still being handled, at that moment.
Receive(r, input, fromPage, before, after) ==
    /\ req[r].pc = "idle"
    /\ \A q \in Reqs : q < r => req[q].pc # "idle"
    /\ req' = [req EXCEPT ![r] =
                 [IdleRequest EXCEPT !.pc = "getCanvas",
                                     !.canvasId = input.canvasId,
                                     !.x = input.x,
                                     !.y = input.y,
                                     !.color = input.color,
                                     !.userId = input.userId,
                                     !.fromPage = fromPage,
                                     !.cooldownBefore = before,
                                     !.cooldownAfter = after,
                                     !.tArrive = now,
                                     !.arrivedAfter = {q \in Reqs : req[q].wrote},
                                     !.arrivedDuring =
                                         {q \in Reqs : req[q].pc \notin {"idle", "done"}}]]

\* a POST from any HTTP client
DirectRequest(r, input) ==
    /\ Receive(r, input, FALSE, 0, 0)
    /\ UNCHANGED <<roomVars, now, pixels, received, cooldownRemaining, selectedColor>>
    /\ UNCHANGED <<clientVars, lastRead, heartVars, pageVars, timeVars>>

\* lines 26-47: the canvas is looked up and the request checked; a failing
\* check answers at once, otherwise placePixel issues the INSERT
CheckRequest(r) ==
    /\ req[r].pc = "getCanvas"
    /\ LET v == Validate(req[r].canvasId, req[r].x, req[r].y, req[r].color)
       IN  req' = [req EXCEPT ![r].pc = IF v.status = 0 THEN "insert" ELSE "done",
                              ![r].checked = TRUE,
                              ![r].status = v.status,
                              ![r].error = v.error]
    /\ UNCHANGED <<roomVars, now, pixels, received, cooldownRemaining, selectedColor>>
    /\ UNCHANGED <<clientVars, lastRead, heartVars, pageVars, timeVars>>

\* lib/db placePixel: the INSERT commits, pixelData is built with Date.now()
\* and the fetch to /broadcast-pixel is sent
Insert(r) ==
    /\ req[r].pc = "insert"
    /\ \E xs \in StoredCoords(req[r].x), ys \in StoredCoords(req[r].y) :
         /\ pixels' = Upsert(pixels, req[r].canvasId, xs, ys, req[r].color,
                             OrNull(req[r].userId), now)
         /\ req' = [req EXCEPT ![r].pc = "fetch",
                               ![r].wrote = TRUE,
                               ![r].commitNo = 1 + Cardinality({q \in Reqs : req[q].wrote}),
                               ![r].key = <<req[r].canvasId, xs, ys>>,
                               ![r].pixel = [x |-> req[r].x, y |-> req[r].y,
                                             color |-> req[r].color,
                                             user |-> req[r].userId,
                                             timestamp |-> now]]
    /\ UNCHANGED <<roomVars, now, received, cooldownRemaining, selectedColor>>
    /\ UNCHANGED <<clientVars, lastRead, heartVars, pageVars, timeVars>>

\* the room server handles the request's POST /broadcast-pixel, the fetch
\* resolves and the handler answers 200 (place.ts:48-63)
Deliver(r) ==
    /\ req[r].pc = "fetch"
    /\ BroadcastPixelRequest(req[r].canvasId, req[r].pixel)
    /\ received' = [c \in Conns |->
                      received[c] \o [i \in 1..Len(sent'[c]) |-> sent'[c][i].pixel]]
    /\ req' = [req EXCEPT ![r].pc = "done", ![r].status = 200, ![r].broadcast = TRUE]
    /\ UNCHANGED <<now, pixels, cooldownRemaining, selectedColor>>
    /\ UNCHANGED <<clientVars, lastRead, heartVars, pageVars, timeVars>>

\* the fetch rejects (the room server cannot be reached): placePixel throws
\* and the handler's catch answers 500 (place.ts:64-67)
FetchFails(r) ==
    /\ req[r].pc = "fetch"
    /\ req' = [req EXCEPT ![r].pc = "done", ![r].status = 500,
                          ![r].error = "Internal server error"]
    /\ UNCHANGED <<roomVars, now, pixels, received, cooldownRemaining, selectedColor>>
    /\ UNCHANGED <<clientVars, lastRead, heartVars, pageVars, timeVars>>

\* the database call rejects: the handler's catch answers 500
DbFails(r) ==
    /\ req[r].pc \in {"getCanvas", "insert"}
    /\ req' = [req EXCEPT ![r].pc = "done", ![r].status = 500,
                          ![r].error = "Internal server error"]
    /\ UNCHANGED <<roomVars, now, pixels, received, cooldownRemaining, selectedColor>>
    /\ UNCHANGED <<clientVars, lastRead, heartVars, pageVars, timeVars>>

-----------------------------------------------------------------------------
(* pages/canvas/[id].tsx: the page of user alice on canvas A                *)

PageCanvas == "A"
PageUser == "alice"

\* line 823: the palette buttons
availableColors == getCanvas(PageCanvas).allowedColors

\* the color the page draws at a cell: the map's record, or none
ColorAt(map, key) == IF key \in DOMAIN map THEN map[key].color ELSE "none"

\* a mutant: a cooldown of 0 is taken for a missing one and replaced by 5
StartCooldownOrDefault(canvasConfig) ==
    IF canvasConfig.placeCooldown = 0 THEN 5 ELSE canvasConfig.placeCooldown

\* line 412: setCooldownRemaining(canvasConfig.placeCooldown)
StartCooldown(canvasConfig) == canvasConfig.placeCooldown

SelectColor(color) ==
    /\ selectedColor # color
    /\ selectedColor' = color
    /\ UNCHANGED <<roomVars, now, req, pixels, received, cooldownRemaining>>
    /\ UNCHANGED <<clientVars, lastRead, heartVars, pageVars, timeVars>>

\* placePixel (lines 408-433) up to its fetch: a click while the cooldown
\* runs does nothing; otherwise the cooldown is started and the request sent
PageClickOn(id, r, x, y) ==
    /\ cooldownRemaining = 0
    /\ cooldownRemaining' = StartCooldown(getCanvas(id))
    /\ Receive(r, [canvasId |-> id, x |-> x, y |-> y,
                   color |-> selectedColor, userId |-> PageUser],
               TRUE, cooldownRemaining, cooldownRemaining')
    /\ placing' = [placing EXCEPT ![r] =
                     [pending |-> TRUE, key |-> <<x, y>>, color |-> selectedColor,
                      shown |-> ColorAt(pagePixels, <<x, y>>)]]
    /\ UNCHANGED <<roomVars, now, pixels, received, selectedColor>>
    /\ UNCHANGED <<clientVars, lastRead, heartVars, timeVars>>
    /\ UNCHANGED <<lastMessage, heard, handledNo, pagePixels, appliedNos, lastEffect>>

PageClick(r, x, y) == PageClickOn(PageCanvas, r, x, y)

\* one second passes; the page's cooldown timer (lines 227-235) counts down
Tick ==
    /\ now < 1000 + MaxTicks * 1000
    /\ now' = now + 1000
    /\ cooldownRemaining' = IF cooldownRemaining > 0 THEN cooldownRemaining - 1 ELSE 0
    /\ UNCHANGED <<roomVars, req, pixels, received, selectedColor>>
    /\ UNCHANGED <<clientVars, lastRead, heartVars, pageVars, timeVars>>

-----------------------------------------------------------------------------
(* The heartbeat: three connections are members of room A. Connection 1 is  *)
(* a live client, which answers a ping before ten more seconds pass;        *)
(* connection 2 has stopped responding; connection 3 answers or not, and    *)
(* may close.                                                               *)

\* ten-second steps of the clock in a run
MaxBeats == 7

Live == {1}
Silent == {2}
Wavering == {3}
Pulsed == Live \cup Silent \cup Wavering

HeartbeatEnd == 1000 + MaxBeats * serverHeartbeatTimeout

\* the server was started up to 30 s before the connections were made
InitHeartbeat ==
    /\ canvasConnections = ("A" :> Pulsed)
    /\ wsock = [c \in Conns |->
                  IF c \in Pulsed
                  THEN [readyState |-> OPEN, canvasId |-> "A", userId |-> UserOf(c),
                        isAlive |-> TRUE, lastPong |-> 1000]
                  ELSE FreshSocket]
    /\ sent = NothingSent
    /\ lastIssue = NoIssue
    /\ lastJoin = NoJoin
    /\ lastHandled = NoHandled
    /\ tracing = FALSE
    /\ issued = 0
    /\ wire = NothingSent
    /\ now = 1000
    /\ req = [r \in Reqs |-> IdleRequest]
    /\ pixels = NoPixels
    /\ received = NothingReceived
    /\ cooldownRemaining = 0
    /\ selectedColor = "#E50000"
    /\ lastRead = NoRead
    /\ InitClientVars
    /\ InitPageVars
    /\ nextSweep \in {1000 + serverHeartbeatTimeout, 1000 + 2 * serverHeartbeatTimeout,
                       1000 + heartbeatInterval}
    /\ lastSweep = NoSweep

\* a ping is unanswered while ws.isAlive is false
PingPending(c) == wsock[c].readyState = OPEN /\ ~wsock[c].isAlive

\* useWebSocket onmessage, case "ping" (auth-callback.tsx:135-146): the
\* client answers the ping, the server handles the pong
Pong(c) ==
    /\ PingPending(c)
    /\ OtherMessage(c, "pong")

\* ten seconds pass; the interval's callback is not late, and a live client
\* has answered by then
TimePasses ==
    /\ now < nextSweep
    /\ now < HeartbeatEnd
    /\ \A c \in Live : ~PingPending(c)
    /\ now' = now + serverHeartbeatTimeout
    /\ UNCHANGED <<roomVars, placeVars, clientVars, heartVars, pageVars, timeVars>>

NextHeartbeat ==
    \/ Sweep
    \/ TimePasses
    \/ \E c \in Live \cup Wavering : Pong(c)
    \/ \E c \in Wavering : Close(c)
    \/ \E c \in Pulsed : CloseAfterSweep(c)

SpecHeartbeat == InitHeartbeat /\ [][NextHeartbeat]_vars

-----------------------------------------------------------------------------
(* Placement on canvas B, which has no cooldown *)

FreeCanvas == "B"

\* another user's request for the cell the page clicks on
FreeInputs ==
    {[canvasId |-> FreeCanvas, x |-> 0, y |-> 0, color |-> "#E50000", userId |-> "bob"]}

NextFree ==
    \/ \E r \in Reqs, input \in FreeInputs : DirectRequest(r, input)
    \/ \E r \in Reqs : PageClickOn(FreeCanvas, r, 0, 0)
    \/ \E r \in Reqs : CheckRequest(r)
    \/ \E r \in Reqs : Insert(r)
    \/ \E r \in Reqs : Deliver(r)
    \/ \E r \in Reqs : FetchFails(r)
    \/ \E r \in Reqs : DbFails(r)
    \/ Tick

-----------------------------------------------------------------------------
(* Placement with two viewers in room A *)

PlaceInputs ==
    {[canvasId |-> "A", x |-> 0, y |-> 0, color |-> "#FF0000", userId |-> "alice"],
     [canvasId |-> "A", x |-> 0, y |-> 0, color |-> "#00ff00", userId |-> "bob"],
     [canvasId |-> "Z", x |-> 0, y |-> 0, color |-> "#FF0000", userId |-> "alice"],
     [canvasId |-> "A", x |-> 20, y |-> 0, color |-> "#FF0000", userId |-> "alice"],
     [canvasId |-> "A", x |-> 0, y |-> 0, color |-> "red", userId |-> "bob"],
     [canvasId |-> "A", x |-> 0, y |-> 0, color |-> "#E50000", userId |-> "bob"]}

Viewers == {1, 2}

\* the state with the two viewers connected, at clock value t
InitPlaceAt(t) ==
    /\ canvasConnections = ("A" :> Viewers)
    /\ wsock = [c \in Conns |->
                  IF c \in Viewers
                  THEN [readyState |-> OPEN, canvasId |-> "A", userId |-> UserOf(c),
                        isAlive |-> TRUE, lastPong |-> t]
                  ELSE FreshSocket]
    /\ sent = NothingSent
    /\ lastIssue = NoIssue
    /\ lastJoin = NoJoin
    /\ lastHandled = NoHandled
    /\ tracing = FALSE
    /\ issued = 0
    /\ wire = NothingSent
    /\ now = t
    /\ req = [r \in Reqs |-> IdleRequest]
    /\ pixels = NoPixels
    /\ received = NothingReceived
    /\ cooldownRemaining = 0
    /\ selectedColor = "#E50000"
    /\ lastRead = NoRead
    /\ InitClientVars
    /\ InitPageVars
    /\ nextSweep = now + heartbeatInterval
    /\ lastSweep = NoSweep

InitPlace == InitPlaceAt(1000)

NextPlace ==
    \/ \E r \in Reqs, input \in PlaceInputs : DirectRequest(r, input)
    \/ \E r \in Reqs : PageClick(r, 0, 0)
    \/ \E color \in availableColors : SelectColor(color)
    \/ \E r \in Reqs : CheckRequest(r)
    \/ \E r \in Reqs : Insert(r)
    \/ \E r \in Reqs : Deliver(r)
    \/ \E r \in Reqs : FetchFails(r)
    \/ \E r \in Reqs : DbFails(r)
    \/ Tick

SpecPlace == InitPlace /\ [][NextPlace]_vars

SpecFree == InitPlace /\ [][NextFree]_vars

-----------------------------------------------------------------------------
(* The order of broadcasts in room A: the run is traced; two viewers are    *)
(* connected, others connect, members close and pixels are broadcast.       *)

\* broadcasts recorded in a run
MaxIssues == 4

InitOrder ==
    /\ canvasConnections = ("A" :> Viewers)
    /\ wsock = [c \in Conns |->
                  IF c \in Viewers
                  THEN [readyState |-> OPEN, canvasId |-> "A", userId |-> UserOf(c),
                        isAlive |-> TRUE, lastPong |-> 1000]
                  ELSE FreshSocket]
    /\ sent = NothingSent
    /\ lastIssue = NoIssue
    /\ lastJoin = NoJoin
    /\ lastHandled = NoHandled
    /\ tracing = TRUE
    /\ issued = 0
    /\ wire = NothingSent
    /\ now = 1000
    /\ req = [r \in Reqs |-> IdleRequest]
    /\ pixels = NoPixels
    /\ received = NothingReceived
    /\ cooldownRemaining = 0
    /\ selectedColor = "#E50000"
    /\ lastRead = NoRead
    /\ InitClientVars
    /\ InitPageVars
    /\ nextSweep = now + heartbeatInterval
    /\ lastSweep = NoSweep

TracedUpgrade(c) == issued < MaxIssues /\ Upgrade(c, "A")

TracedClose(c) == issued < MaxIssues /\ Close(c)

TracedBroadcastPixel(pixel) == issued < MaxIssues /\ BroadcastPixel("A", pixel)

NextOrder ==
    \/ \E c \in Conns : TracedUpgrade(c)
    \/ \E c \in Conns : TracedClose(c)
    \/ \E pixel \in PixelInputs : TracedBroadcastPixel(pixel)

SpecOrder == InitOrder /\ [][NextOrder]_vars

-----------------------------------------------------------------------------
(* The page of alice on canvas B: her socket is connection 1, the only      *)
(* member of room B; another user places pixels as well.                    *)

PageConn == 1

\* useWebSocket onmessage, default branch (auth-callback.tsx:129-165): the
\* next pixel_placed event of the socket is parsed and setLastMessage called
OnMessage ==
    /\ heard < Len(received[PageConn])
    /\ heard' = heard + 1
    /\ lastMessage' = [no |-> heard + 1, type |-> "pixel_placed",
                       data |-> received[PageConn][heard + 1]]
    /\ lastEffect' = NoEffect
    /\ UNCHANGED <<handledNo, pagePixels, appliedNos, placing>>
    /\ UNCHANGED <<roomVars, now, placeVars, clientVars, heartVars, timeVars>>

\* a mutant: the record of the map is kept when its timestamp is the later one
ApplyPixelPlacedIfNewer(map, pixelData) ==
    LET key == <<pixelData.x, pixelData.y>>
    IN  IF key \in DOMAIN map /\ map[key].timestamp > pixelData.timestamp
        THEN map
        ELSE [k \in DOMAIN map \cup {key} |-> IF k = key THEN pixelData ELSE map[k]]

\* canvas/[id].tsx:214-216: prev.set(`${x},${y}`, pixelData), copied
ApplyPixelPlaced(map, pixelData) ==
    LET key == <<pixelData.x, pixelData.y>>
    IN  [k \in DOMAIN map \cup {key} |-> IF k = key THEN pixelData ELSE map[k]]

\* the page renders with the hook's lastMessage and its effect on
\* [lastMessage] runs (canvas/[id].tsx:209-225). React renders once for all
\* the state updates made since the last render.
PageEffect ==
    /\ handledNo # lastMessage.no
    /\ handledNo' = lastMessage.no
    /\ pagePixels' = IF lastMessage.type = "pixel_placed"
                     THEN ApplyPixelPlaced(pagePixels, lastMessage.data)
                     ELSE pagePixels
    /\ appliedNos' = appliedNos \cup {lastMessage.no}
    /\ lastEffect' = [ran |-> TRUE, no |-> lastMessage.no, data |-> lastMessage.data,
                      before |-> pagePixels]
    /\ UNCHANGED <<lastMessage, heard, placing>>
    /\ UNCHANGED <<roomVars, now, placeVars, clientVars, heartVars, timeVars>>

\* placePixel after its fetch (canvas/[id].tsx:429-452): an answer that is not
\* ok is logged, on an ok answer the cell is set in the map
PageResponse(r) ==
    /\ placing[r].pending
    /\ req[r].pc = "done"
    /\ placing' = [placing EXCEPT ![r].pending = FALSE]
    /\ pagePixels' =
          IF req[r].status = 200
          THEN [k \in DOMAIN pagePixels \cup {placing[r].key} |->
                  IF k = placing[r].key
                  THEN [x |-> k[1], y |-> k[2], color |-> placing[r].color,
                        user |-> PageUser, timestamp |-> now]
                  ELSE pagePixels[k]]
          ELSE pagePixels
    /\ lastEffect' = NoEffect
    /\ UNCHANGED <<lastMessage, heard, handledNo, appliedNos>>
    /\ UNCHANGED <<roomVars, now, placeVars, clientVars, heartVars, timeVars>>

\* another user's request, for a cell next to the one the page clicks on
PageInputs ==
    {[canvasId |-> FreeCanvas, x |-> 2, y |-> 0, color |-> "#00FF00", userId |-> "bob"]}

InitPage ==
    /\ canvasConnections = (FreeCanvas :> {PageConn})
    /\ wsock = [c \in Conns |->
                  IF c = PageConn
                  THEN [readyState |-> OPEN, canvasId |-> FreeCanvas, userId |-> UserOf(c),
                        isAlive |-> TRUE, lastPong |-> 1000]
                  ELSE FreshSocket]
    /\ sent = NothingSent
    /\ lastIssue = NoIssue
    /\ lastJoin = NoJoin
    /\ lastHandled = NoHandled
    /\ tracing = FALSE
    /\ issued = 0
    /\ wire = NothingSent
    /\ now = 1000
    /\ req = [r \in Reqs |-> IdleRequest]
    /\ pixels = NoPixels
    /\ received = NothingReceived
    /\ cooldownRemaining = 0
    /\ selectedColor = "#E50000"
    /\ lastRead = NoRead
    /\ InitClientVars
    /\ InitPageVars
    /\ nextSweep = now + heartbeatInterval
    /\ lastSweep = NoSweep

NextPage ==
    \/ \E r \in Reqs, input \in PageInputs : DirectRequest(r, input)
    \/ \E r \in Reqs : PageClickOn(FreeCanvas, r, 0, 0)
    \/ \E r \in Reqs : CheckRequest(r)
    \/ \E r \in Reqs : Insert(r)
    \/ \E r \in Reqs : Deliver(r)
    \/ \E r \in Reqs : PageResponse(r)
    \/ OnMessage
    \/ PageEffect
    \/ Tick

SpecPage == InitPage /\ [][NextPage]_vars

-----------------------------------------------------------------------------
(* One request at a time, over the coordinates -1, 0, 1.5, 9, 9.5 and 10 *)

ValidateCoords == {-2, 0, 3, 18, 19, 20}

\* the caller of a request: the body's userId is absent, names a guest
\* account or names a registered account
Callers == {Undefined, "guest", "alice"}

ValidateInputs ==
    {[canvasId |-> id, x |-> x, y |-> y, color |-> "#FF0000", userId |-> "alice"] :
        id \in {"A", "Z"}, x \in ValidateCoords, y \in ValidateCoords}
    \cup
    {[canvasId |-> id, x |-> 0, y |-> 0, color |-> "#FF0000", userId |-> u] :
        id \in {"A", "G", "U"}, u \in Callers}

\* pages/api/canvas/[id].ts, GET (lines 12-28): the canvas and its pixels.
\* succeeded and commits record which placement requests had been answered
\* 200, and how many writes the store had taken, when the read was made.
ReadState(canvasId) ==
    /\ lastRead' =
          IF getCanvas(canvasId).found
          THEN [called |-> TRUE, canvasId |-> canvasId, status |-> 200,
                pixels |-> getCanvasPixels(pixels, canvasId),
                succeeded |-> {r \in Reqs : req[r].pc = "done" /\ req[r].status = 200},
                commits |-> Cardinality({r \in Reqs : req[r].wrote})]
          ELSE [NoRead EXCEPT !.called = TRUE, !.canvasId = canvasId, !.status = 404]
    /\ UNCHANGED <<roomVars, now, req, pixels, received, cooldownRemaining,
                   selectedColor, clientVars, heartVars, pageVars, timeVars>>

\* the clock when the first request arrives: on a second, or 700 ms after one
InitValidate == \E t \in {1000, 1700} : InitPlaceAt(t)

NextValidate ==
    \/ \E input \in ValidateInputs : DirectRequest(1, input)
    \/ CheckRequest(1)
    \/ Insert(1)
    \/ Deliver(1)
    \/ \E id \in {"A", "Z"} : ReadState(id)

SpecValidate == InitValidate /\ [][NextValidate]_vars

-----------------------------------------------------------------------------
(* hooks/useWebSocket: one client                                           *)

\* 1 if close() on the socket leaves a close event to be delivered
Pending(ws) == IF ws \in {"CONNECTING", "OPEN", "CLOSING"} THEN 1 ELSE 0

\* connect (lines 84-218) under the manual flag its caller has set; byTimer
\* tells that the retry timer's callback is the caller. `throws`: the
\* WebSocket constructor raises.
connect(manual, byTimer) ==
    IF manual \/ wsRef = "CONNECTING"
    THEN /\ reconnectTimeout' = IF byTimer THEN NoTimeout ELSE reconnectTimeout
         /\ autoAttempts' = IF byTimer THEN autoAttempts ELSE 0
         /\ UNCHANGED <<wsRef, staleSockets, heartbeatTimeout, connectionState>>
    ELSE /\ staleSockets + Pending(wsRef) <= MaxStaleSockets
         /\ staleSockets' = staleSockets + Pending(wsRef)
         /\ reconnectTimeout' = NoTimeout
         /\ heartbeatTimeout' = FALSE
         /\ \E throws \in BOOLEAN :
              IF throws
              THEN /\ wsRef' = "null"
                   /\ connectionState' = "disconnected"
                   /\ autoAttempts' = IF byTimer THEN autoAttempts ELSE 0
              ELSE /\ wsRef' = "CONNECTING"
                   /\ connectionState' = "connecting"
                   /\ autoAttempts' = IF byTimer THEN autoAttempts + 1 ELSE 0

\* a mutant: the close handler looks at the close code only
oncloseCodeOnly(manual, code, attempts) ==
    IF code = 1000
    THEN [connectionState |-> "disconnected", reconnectTimeout |-> NoTimeout]
    ELSE IF CanRetry(attempts)
    THEN [connectionState |-> "reconnecting",
          reconnectTimeout |-> [pending |-> TRUE, delay |-> ReconnectDelay(attempts),
                                attempt |-> attempts]]
    ELSE [connectionState |-> "disconnected", reconnectTimeout |-> NoTimeout]

\* onclose (lines 176-209) after its clearTimeouts(): the connection state and
\* the retry timer it leaves
onclose(manual, code, attempts) ==
    IF manual \/ code = 1000
    THEN [connectionState |-> "disconnected", reconnectTimeout |-> NoTimeout]
    ELSE IF CanRetry(attempts)
    THEN [connectionState |-> "reconnecting",
          reconnectTimeout |-> [pending |-> TRUE, delay |-> ReconnectDelay(attempts),
                                attempt |-> attempts]]
    ELSE [connectionState |-> "disconnected", reconnectTimeout |-> NoTimeout]

HandleClose(code, stale) ==
    LET after == onclose(isManuallyClosed, code, reconnectAttempts)
    IN  /\ isConnected' = FALSE
        /\ heartbeatTimeout' = FALSE
        /\ connectionState' = after.connectionState
        /\ reconnectTimeout' = after.reconnectTimeout
        /\ lastClose' = [lastClose EXCEPT !.code = code, !.manual = isManuallyClosed,
                                          !.stale = stale]
        /\ UNCHANGED <<reconnectAttempts, isManuallyClosed, autoAttempts>>

CloseCodes == {1000, 1006}

\* the socket in wsRef closes: the connection fails or is lost, the server
\* closes it, or a close() of the heartbeat timeout completes
CloseEvent(code) ==
    /\ wsRef \in {"CONNECTING", "OPEN", "CLOSING"}
    /\ wsRef' = "CLOSED"
    /\ HandleClose(code, FALSE)
    /\ UNCHANGED <<staleSockets, roomVars, now, placeVars, heartVars, pageVars, timeVars>>

\* the close event of a socket that connect() or disconnect() has dropped
StaleCloseEvent(code) ==
    /\ staleSockets > 0
    /\ staleSockets' = staleSockets - 1
    /\ HandleClose(code, TRUE)
    /\ UNCHANGED <<wsRef, roomVars, now, placeVars, heartVars, pageVars, timeVars>>

\* a mutant: onopen leaves the retry counter as it is
onopenKeepsAttempts(attempts, canvasId, userId) ==
    [connectionState |-> "connected", reconnectAttempts |-> attempts,
     sent |-> <<[type |-> "join_canvas", canvasId |-> canvasId, userId |-> userId]>>]

\* onopen (lines 108-127): the state and the counter it sets, and what it
\* passes to wsRef.current.send
onopen(attempts, canvasId, userId) ==
    [connectionState |-> "connected", reconnectAttempts |-> 0,
     sent |-> <<[type |-> "join_canvas", canvasId |-> canvasId, userId |-> userId]>>]

\* the socket in wsRef opens: onopen runs, and its handleHeartbeat()
SocketOpens ==
    LET after == onopen(reconnectAttempts, PageCanvas, PageUser)
    IN  /\ wsRef = "CONNECTING"
        /\ wsRef' = "OPEN"
        /\ isConnected' = TRUE
        /\ connectionState' = after.connectionState
        /\ reconnectAttempts' = after.reconnectAttempts
        /\ lastOpen' = [opened |-> TRUE, before |-> reconnectAttempts,
                        connectionState |-> after.connectionState,
                        reconnectAttempts |-> after.reconnectAttempts,
                        sent |-> after.sent]
        /\ heartbeatTimeout' = TRUE
        /\ autoAttempts' = 0
        /\ beatAge' = 0
        /\ quiet' = 0
        /\ UNCHANGED <<staleSockets, reconnectTimeout, isManuallyClosed, lastClose,
                       lastTimeout, roomVars, now, placeVars, heartVars, pageVars>>

\* onmessage with a ping or a pong (lines 135-151): handleHeartbeat()
HeartbeatMessage ==
    /\ wsRef \in {"OPEN", "CLOSING"}
    /\ heartbeatTimeout' = TRUE
    /\ beatAge' = 0
    /\ quiet' = 0
    /\ UNCHANGED <<wsRef, staleSockets, reconnectTimeout, reconnectAttempts,
                   isManuallyClosed, connectionState, isConnected, autoAttempts,
                   lastClose, lastTimeout, lastOpen, roomVars, now, placeVars,
                   heartVars, pageVars>>

\* the heartbeat timer's callback (lines 76-81)
HeartbeatTimeoutFires ==
    /\ heartbeatTimeout
    /\ heartbeatTimeout' = FALSE
    /\ wsRef' = IF wsRef \in {"CONNECTING", "OPEN"} THEN "CLOSING" ELSE wsRef
    /\ lastTimeout' = [fired |-> TRUE, quiet |-> quiet]
    /\ UNCHANGED <<staleSockets, reconnectTimeout, reconnectAttempts,
                   isManuallyClosed, connectionState, isConnected, autoAttempts,
                   lastClose, beatAge, quiet, lastOpen, roomVars, now, placeVars,
                   heartVars, pageVars>>

\* the retry timer's callback (lines 201-204)
ReconnectTimerFires ==
    /\ reconnectTimeout.pending
    /\ reconnectAttempts' = reconnectAttempts + 1
    /\ connect(isManuallyClosed, TRUE)
    /\ UNCHANGED <<isManuallyClosed, isConnected, lastClose, roomVars, now, placeVars, heartVars, pageVars, timeVars>>

\* disconnect (lines 220-234), also the cleanup of the hook's effect
Disconnect ==
    /\ staleSockets + Pending(wsRef) <= MaxStaleSockets
    /\ isManuallyClosed' = TRUE
    /\ reconnectTimeout' = NoTimeout
    /\ heartbeatTimeout' = FALSE
    /\ staleSockets' = staleSockets + Pending(wsRef)
    /\ wsRef' = "null"
    /\ isConnected' = FALSE
    /\ connectionState' = "disconnected"
    /\ reconnectAttempts' = 0
    /\ lastClose' = [lastClose EXCEPT !.disconnectedFrom = connectionState,
                                      !.hadTimer = reconnectTimeout.pending]
    /\ autoAttempts' = 0
    /\ UNCHANGED <<roomVars, now, placeVars, heartVars, pageVars, timeVars>>

\* forceReconnect (lines 251-256), returned to the caller as `connect`
ForceReconnect ==
    /\ reconnectAttempts' = 0
    /\ isManuallyClosed' = FALSE
    /\ connect(FALSE, FALSE)
    /\ lastClose' = NoClose
    /\ UNCHANGED <<isConnected, roomVars, now, placeVars, heartVars, pageVars, timeVars>>

\* the effect runs again after its cleanup (lines 258-265)
EffectRun ==
    /\ isManuallyClosed
    /\ isManuallyClosed' = FALSE
    /\ connect(FALSE, FALSE)
    /\ lastClose' = NoClose
    /\ UNCHANGED <<reconnectAttempts, isConnected, roomVars, now, placeVars, heartVars, pageVars, timeVars>>

InitClient == InitRoom

NextClient ==
    \/ \E code \in CloseCodes : CloseEvent(code)
    \/ \E code \in CloseCodes : StaleCloseEvent(code)
    \/ SocketOpens
    \/ HeartbeatMessage
    \/ HeartbeatTimeoutFires
    \/ ReconnectTimerFires
    \/ Disconnect
    \/ ForceReconnect
    \/ EffectRun

SpecClient == InitClient /\ [][NextClient]_vars

-----------------------------------------------------------------------------
(* The client's heartbeat timer against the clock                           *)

\* handleHeartbeat's setTimeout delay (line 81)
heartbeatTimeoutDelay == 45000

\* the clock of this run advances by half a server heartbeat interval
BeatStep == heartbeatInterval \div 2

\* onmessage with a user_count_update or a connected message (lines 153-159):
\* the count is set, handleHeartbeat is not called
CountMessage ==
    /\ wsRef \in {"OPEN", "CLOSING"}
    /\ quiet' = 0
    /\ UNCHANGED <<beatAge, lastTimeout, lastOpen, clientVars, roomVars, now,
                   placeVars, heartVars, pageVars>>

\* time passes while the heartbeat timer runs; the timer fires when due
ClientTime ==
    /\ heartbeatTimeout
    /\ beatAge < heartbeatTimeoutDelay
    /\ beatAge' = beatAge + BeatStep
    /\ quiet' = quiet + BeatStep
    /\ UNCHANGED <<lastTimeout, lastOpen, clientVars, roomVars, now, placeVars,
                   heartVars, pageVars>>

HeartbeatDeadline ==
    /\ beatAge >= heartbeatTimeoutDelay
    /\ HeartbeatTimeoutFires

NextBeat ==
    \/ \E code \in CloseCodes : CloseEvent(code)
    \/ SocketOpens
    \/ HeartbeatMessage
    \/ CountMessage
    \/ ClientTime
    \/ HeartbeatDeadline
    \/ ReconnectTimerFires

SpecBeat == InitClient /\ [][NextBeat]_vars

-----------------------------------------------------------------------------
(* Claims about the room server, checked under SpecRoom *)

\* how often message m was passed to connection c's send by the last handler
Copies(c, m) == Cardinality({i \in 1..Len(sent[c]) : sent[c][i] = m})

IsBroadcastType(m) == m.type \in {"user_count_update", "pixel_placed"}

\* a handler sends a broadcast-type message only through its own
\* broadcastToCanvas call, to the open members found by that call: nothing that
\* was broadcast earlier is sent again to a connection that has joined since
NoReplay ==
    \A c \in Conns : \A i \in 1..Len(sent[c]) :
        IsBroadcastType(sent[c][i]) =>
            /\ lastIssue.called
            /\ sent[c][i] = lastIssue.message
            /\ c \in lastIssue.open

\* C4 as stated: each broadcast is delivered exactly once to every connection
\* that is an open member of the room when it is issued (the excluded originator
\* apart), and to no other connection.
C4_ExactlyOnceToEveryOpenMember ==
    /\ NoReplay
    /\ lastIssue.called =>
          \A c \in Conns :
              Copies(c, lastIssue.message) = IF c \in lastIssue.open THEN 1 ELSE 0

\* C4 amended: each broadcast is delivered at most once to any connection,
\* exactly once to every open member of the room at the moment it is issued
\* (the excluded originator apart) whose send does not throw, and never to a
\* connection that is not a member then or joins afterwards.
C4_ExactlyOnceUnlessSendThrows ==
    /\ NoReplay
    /\ lastIssue.called =>
          \A c \in Conns :
              Copies(c, lastIssue.message) =
                  IF c \in lastIssue.open \ lastIssue.threw THEN 1 ELSE 0

\* C4 witness: a broadcast to a room with two members that receive it and one
\* whose send threw, while another open connection is outside the room
C4_Witness ==
    /\ lastIssue.called
    /\ lastIssue.threw # {}
    /\ lastIssue.open \ lastIssue.threw # {}
    /\ \E c \in Conns \ lastIssue.members :
          wsock[c].readyState = OPEN /\ Copies(c, lastIssue.message) = 0
    /\ \A c \in lastIssue.open \ lastIssue.threw : Copies(c, lastIssue.message) = 1

\* C5: a join by a connection that is already a member of the room leaves the
\* room's size as it was, and the count in the connected message and in the
\* user_count_update broadcast is that size.
C5_JoinIdempotent ==
    (lastJoin.called /\ lastJoin.wasMember) =>
        /\ lastJoin.sizeAfter = lastJoin.sizeBefore
        /\ lastJoin.reported = lastJoin.sizeBefore
        /\ lastJoin.welcomed =>
              /\ sent[lastJoin.conn][1].type = "connected"
              /\ sent[lastJoin.conn][1].count = lastJoin.sizeBefore
              /\ lastIssue.called
              /\ lastIssue.message.type = "user_count_update"
              /\ lastIssue.message.count = lastJoin.sizeBefore

\* C5 witness: an open member of a room of two joined it again and was told 2
C5_Witness ==
    /\ lastJoin.called /\ lastJoin.wasMember /\ lastJoin.welcomed
    /\ lastJoin.sizeBefore = 2
    /\ lastJoin.canvasId \in Canvases
    /\ sent[lastJoin.conn][1].count = 2
    /\ Len(sent[lastJoin.conn]) = 2

\* C10: when a send to a member throws, or a member is not open, the message
\* is still sent to every other open member, the broadcast call returns to its
\* caller, and the failing member is no longer in the room afterwards.
C10_FailureIsolated ==
    lastIssue.called =>
        /\ lastIssue.returned
        /\ \A c \in lastIssue.open \ lastIssue.threw :
              Copies(c, lastIssue.message) >= 1
        /\ \A c \in (lastIssue.members \ lastIssue.open) \cup lastIssue.threw :
              c \notin Targets(canvasConnections, lastIssue.canvasId, NoWs)

\* C10 witness: a broadcast to a room holding a member that is not open, a
\* member whose send threw and a member that received the message
C10_Witness ==
    /\ lastIssue.called /\ lastIssue.returned
    /\ lastIssue.members \ lastIssue.open # {}
    /\ lastIssue.threw # {}
    /\ \E c \in lastIssue.open \ lastIssue.threw : Copies(c, lastIssue.message) = 1

-----------------------------------------------------------------------------
(* Claims about placement, checked under SpecPlace and SpecValidate *)

SameKey(q, r) ==
    req[q].canvasId = req[r].canvasId /\ req[q].userId = req[r].userId

CooldownMs(r) == getCanvas(req[r].canvasId).placeCooldown * 1000

\* the request passes every check that place.ts makes
WellFormed(r) ==
    Validate(req[r].canvasId, req[r].x, req[r].y, req[r].color).status = 0

\* C1: on a canvas with a cooldown, a request that reaches the server after a
\* placement by the same (canvas, user) was written at time t, less than the
\* cooldown after t, is answered 429 and writes nothing; one that arrives at
\* least the cooldown after t is accepted.
C1_CooldownGate ==
    \A q, r \in Reqs :
        (q \in req[r].arrivedAfter /\ SameKey(q, r) /\ CooldownMs(r) > 0
            /\ WellFormed(r)) =>
            IF req[r].tArrive - req[q].pixel.timestamp < CooldownMs(r)
            THEN /\ ~req[r].wrote
                 /\ (req[r].pc = "done" /\ req[r].status # 500) => req[r].status = 429
            ELSE (req[r].pc = "done" /\ req[r].status # 500) => req[r].status = 200

\* C2: of two requests for the same (canvas, user) on a canvas with a
\* cooldown, the second received while the first is still being handled, at
\* most one is written to the pixel store.
C2_AtMostOneConcurrentAccepted ==
    \A q, r \in Reqs :
        (q # r /\ q \in req[r].arrivedDuring /\ SameKey(q, r) /\ CooldownMs(r) > 0) =>
            ~(req[q].wrote /\ req[r].wrote)

Position(c, p) == CHOOSE i \in 1..Len(received[c]) : received[c][i] = p

\* C3: when two accepted placements by different users wrote the same cell,
\* every viewer still in the room has received their two pixel_placed events
\* in the order of the two writes, and the last event it received carries the
\* color that the store holds for the cell.
C3_EventsInCommitOrder ==
    \A q, r \in Reqs :
        (q # r /\ req[q].status = 200 /\ req[r].status = 200
            /\ req[q].userId # req[r].userId /\ req[q].key = req[r].key
            /\ req[q].commitNo < req[r].commitNo) =>
            \A c \in Targets(canvasConnections, req[r].canvasId, NoWs) :
                /\ Position(c, req[q].pixel) < Position(c, req[r].pixel)
                /\ received[c][Len(received[c])].color = pixels[req[r].key].color

\* a numeric coordinate pair that is integral and inside the canvas
IntegersInRange(x, y, canvas) ==
    /\ IsInteger(x) /\ IsInteger(y)
    /\ 0 <= x /\ x < 2 * canvas.width
    /\ 0 <= y /\ y < 2 * canvas.height

\* C6: on an existing canvas a request passes the coordinate check exactly
\* when x and y are integers with 0 <= x < width and 0 <= y < height; any
\* other numeric pair is answered 400 "Invalid coordinates".
C6_CoordinateValidation ==
    \A r \in Reqs :
        (req[r].checked /\ getCanvas(req[r].canvasId).found) =>
            IF IntegersInRange(req[r].x, req[r].y, getCanvas(req[r].canvasId))
            THEN req[r].error # "Invalid coordinates"
            ELSE req[r].status = 400 /\ req[r].error = "Invalid coordinates"

\* C7: a request rejected by a validation step has written nothing to the
\* pixel store, has caused no pixel_placed broadcast, and the attempt has left
\* the cooldown state as it found it.
C7_RejectionHasNoEffect ==
    \A r \in Reqs :
        (req[r].pc = "done" /\ req[r].status \in {400, 403, 404, 429}) =>
            /\ ~req[r].wrote
            /\ ~req[r].broadcast
            /\ req[r].cooldownAfter = req[r].cooldownBefore

-----------------------------------------------------------------------------
(* Claims about the client, checked under SpecClient *)

\* min(1000 * 2^k, 30000) for k = 0..9, written out
BackoffTable == <<1000, 2000, 4000, 8000, 16000, 30000, 30000, 30000, 30000, 30000>>

\* C8: the retry timer creates at most 10 sockets in a row without the
\* connection having opened; a retry is scheduled as the k-th with k in 0..9
\* and waits min(1000 * 2^k, 30000) ms; when the 10th has failed the client is
\* Disconnected with no timer pending.
C8_BoundedBackoff ==
    /\ autoAttempts <= 10
    /\ autoAttempts <= reconnectAttempts
    /\ reconnectTimeout.pending =>
          /\ reconnectTimeout.attempt < 10
          /\ reconnectTimeout.delay = BackoffTable[reconnectTimeout.attempt + 1]
    /\ (reconnectAttempts = 10 /\ wsRef = "CLOSED" /\ staleSockets = 0) =>
          /\ connectionState = "disconnected"
          /\ ~reconnectTimeout.pending
          /\ ~heartbeatTimeout

\* C8 witness: ten sockets created by the timer have failed in a row and the
\* client has stopped
C8_Witness ==
    /\ autoAttempts = 10 /\ reconnectAttempts = 10
    /\ wsRef = "CLOSED" /\ staleSockets = 0
    /\ lastClose.code = 1006 /\ ~isManuallyClosed
    /\ connectionState = "disconnected" /\ ~reconnectTimeout.pending

\* C9: from a manual disconnect until connect is called again, wsRef holds no
\* socket, no retry timer is pending and the state is Disconnected, whatever
\* close events are delivered meanwhile.
C9_ManualDisconnectSticks ==
    isManuallyClosed =>
        /\ wsRef = "null"
        /\ ~reconnectTimeout.pending
        /\ connectionState = "disconnected"

\* C9 witness: disconnect() was called while a retry was pending, and after
\* it the close event of a dropped socket arrived with code 1006
C9_Witness ==
    /\ isManuallyClosed
    /\ lastClose.disconnectedFrom = "reconnecting" /\ lastClose.hadTimer
    /\ lastClose.manual /\ lastClose.code = 1006
    /\ wsRef = "null" /\ ~reconnectTimeout.pending

-----------------------------------------------------------------------------
(* Claims about the canvas-state read, checked under SpecValidate *)

\* another write to the cell of request r lies between r's write and the read
OverwrittenBeforeRead(r) ==
    \E q \in Reqs :
        /\ q # r /\ req[q].wrote /\ req[q].key = req[r].key
        /\ req[q].commitNo > req[r].commitNo
        /\ req[q].commitNo <= lastRead.commits

\* C11: a canvas-state read made after a placement was answered 200, with no
\* other write to the cell in between, returns a pixel at the request's (x, y)
\* with the request's color and a timestamp not earlier than the time the
\* request arrived.
C11_ReadAfterWrite ==
    (lastRead.called /\ lastRead.status = 200) =>
        \A r \in lastRead.succeeded :
            (req[r].canvasId = lastRead.canvasId /\ ~OverwrittenBeforeRead(r)) =>
                \E row \in lastRead.pixels :
                    /\ 2 * row.x = req[r].x
                    /\ 2 * row.y = req[r].y
                    /\ row.color = req[r].color
                    /\ row.timestamp >= req[r].tArrive

\* the identity a request carries
Identity(userId) ==
    IF userId = Undefined THEN "none" ELSE IF userId = "guest" THEN "guest" ELSE "user"

\* C12: on a user_only canvas a request with no identity or a guest identity
\* is rejected and never written; on a user_or_guest canvas a request with no
\* identity is rejected as Unauthorized (401) and never written; on an anyone
\* canvas a well-formed request with no identity is accepted.
C12_AuthModeGate ==
    \A r \in Reqs :
        LET mode == getCanvas(req[r].canvasId).authMode
            who == Identity(req[r].userId)
        IN  WellFormed(r) =>
                /\ (mode = "user_only" /\ who \in {"none", "guest"}) =>
                        /\ ~req[r].wrote
                        /\ req[r].pc = "done" => req[r].status \in {401, 403}
                /\ (mode = "user_or_guest" /\ who = "none") =>
                        /\ ~req[r].wrote
                        /\ req[r].pc = "done" => req[r].status = 401
                /\ (mode = "anyone" /\ req[r].pc = "done" /\ req[r].status # 500) =>
                        req[r].status = 200

\* C13: a connection or a join that names no canvas is never added to a room:
\* no room is keyed by the missing id, the handler of such a join leaves the
\* registry as it was and sends no connected or user_count_update message.
C13_NoCanvasNeverJoins ==
    /\ Undefined \notin DOMAIN canvasConnections
    /\ (lastJoin.called /\ lastJoin.canvasId = Undefined) =>
           /\ lastJoin.sizeAfter = lastJoin.sizeBefore
           /\ ~lastJoin.welcomed
           /\ \A c \in Conns : sent[c] = <<>>
    /\ \A c \in Conns : wsock[c].readyState = 0 => RoomsOf(c) = {}

InvalidKinds == {"unknown", "badjson"}

\* C14: a message that is not valid JSON or whose type is not recognised
\* leaves the socket open, and leaves the rooms, their sizes and the liveness
\* fields of every connection as they were; its handler sends nothing.
C14_InvalidMessageIgnored ==
    [][lastHandled'.kind \in InvalidKinds =>
          /\ wsock'[lastHandled'.conn].readyState = OPEN
          /\ canvasConnections' = canvasConnections
          /\ wsock' = wsock
          /\ \A c \in Conns : sent'[c] = <<>>]_vars

\* an invalid message was handled on a socket that is a member of a room
C14_Witness ==
    /\ lastHandled.kind \in InvalidKinds
    /\ RoomsOf(lastHandled.conn) # {}
    /\ wsock[lastHandled.conn].readyState = OPEN

NoCooldown(id) == getCanvas(id).found /\ getCanvas(id).placeCooldown = 0

\* C15: on a canvas whose cooldown is 0 every well-formed placement is
\* accepted and written, however soon after the previous one it comes, and
\* the page never starts a cooldown: a click is never blocked.
C15_NoCooldownNeverBlocks ==
    /\ \A r \in Reqs :
          (NoCooldown(req[r].canvasId) /\ WellFormed(r)
             /\ req[r].pc = "done" /\ req[r].status # 500) =>
                req[r].status = 200 /\ req[r].wrote
    /\ \A r \in Reqs :
          (req[r].fromPage /\ NoCooldown(req[r].canvasId)) => req[r].cooldownAfter = 0
    /\ (\A r \in Reqs : req[r].fromPage => NoCooldown(req[r].canvasId)) =>
          cooldownRemaining = 0

\* two clicks of the same user on the same cell within the same second, the
\* second after the first was written, both accepted
C15_Witness ==
    \E q, r \in Reqs :
        /\ q < r /\ req[q].fromPage /\ req[r].fromPage
        /\ NoCooldown(req[r].canvasId)
        /\ q \in req[r].arrivedAfter
        /\ req[r].tArrive = req[q].tArrive
        /\ req[q].pc = "done" /\ req[q].status = 200
        /\ req[r].pc = "done" /\ req[r].status = 200 /\ req[r].wrote

\* pages/canvas/[id].tsx lines 211-225: the page keeps the pixel of the last
\* pixel_placed event for a cell, keyed by the event's x and y; "none" when
\* no event named the cell (the canvas was empty when the page loaded)
Displayed(c, x, y) ==
    LET idx == {i \in 1..Len(received[c]) :
                  received[c][i].x = x /\ received[c][i].y = y}
    IN  IF idx = {} THEN "none"
        ELSE received[c][CHOOSE i \in idx : \A j \in idx : j <= i].color

Quiescent == \A r \in Reqs : req[r].pc \in {"idle", "done"}

\* C16: once every request has been answered and every event delivered, each
\* viewer that stayed connected shows for every written cell the color the
\* store holds. Stated for runs in which no request failed with 500, every
\* viewer got every event, coordinates are whole and no request came from
\* the page itself (so no display holds an optimistic update).
C16_DisplaysConverge ==
    (/\ Quiescent
     /\ \A r \in Reqs : req[r].status # 500 /\ ~req[r].fromPage
                        /\ IsInteger(req[r].x) /\ IsInteger(req[r].y)) =>
        \A c \in Viewers :
            (/\ wsock[c].readyState = OPEN
             /\ c \in RoomsOfCanvas(PageCanvas)
             /\ Len(received[c]) = Cardinality({r \in Reqs : req[r].broadcast})) =>
                \A k \in DOMAIN pixels :
                    k[1] = PageCanvas => Displayed(c, 2 * k[2], 2 * k[3]) = pixels[k].color

\* C17: every canvas id of the registry maps to at least one connection.
C17_NoEmptyRoom ==
    \A id \in DOMAIN canvasConnections : canvasConnections[id] # {}

Closed(sweep) == sweep.notOpen \cup sweep.timedOut \cup sweep.threw

\* C18 as stated: the heartbeat sweep never closes or removes the connection
\* of a live client.
C18_LiveNeverSwept ==
    \A c \in Live : c \notin Closed(lastSweep)

\* C18: the sweep closes or removes the connection of a live client only when
\* its send of the ping to it raised; it never finds the connection timed out
\* or not open, and while the connection is open and in its room the time since
\* its last recorded response is within interval + grace.
C18_LiveSweptOnlyOnSendError ==
    \A c \in Live :
        /\ c \notin lastSweep.notOpen \cup lastSweep.timedOut
        /\ (wsock[c].readyState = OPEN /\ RoomsOf(c) # {}) =>
              now - wsock[c].lastPong <= heartbeatInterval + serverHeartbeatTimeout

\* a sweep pinged the live client, which had answered an earlier ping, and
\* found another connection timed out
C18_Witness ==
    /\ lastSweep.called
    /\ Live \subseteq lastSweep.pinged
    /\ lastSweep.timedOut # {}
    /\ \A c \in Live : wsock[c].lastPong > 1000 /\ wsock[c].readyState = OPEN

\* C19: a sweep leaves no open connection whose last response is more than
\* interval + grace old, so no open connection is ever more than one interval
\* past that; a room the sweep emptied is deleted, and the members that remain
\* in a room which lost connections are sent the new count.
C19_SilentIsSwept ==
    /\ \A c \in Conns :
          wsock[c].readyState = OPEN =>
              /\ (lastSweep.called /\ lastSweep.at = now) =>
                     ~HeartbeatExpired(now, wsock[c].lastPong)
              /\ now - wsock[c].lastPong <=
                     2 * heartbeatInterval + serverHeartbeatTimeout
    /\ \A room \in lastSweep.rooms :
          /\ (room.dead # {} /\ room.remaining # {}) =>
                 room.notified \cup room.countThrew = room.remaining
          /\ (room.remaining = {} /\ lastSweep.at = now) =>
                 room.id \notin DOMAIN canvasConnections

\* the placement whose committed write an event reports
WrittenBy(m) ==
    {r \in Reqs : /\ req[r].wrote
                  /\ req[r].canvasId = m.canvasId
                  /\ req[r].pixel = m.pixel
                  /\ 2 * req[r].key[2] = m.pixel.x
                  /\ 2 * req[r].key[3] = m.pixel.y}

\* C20: every pixel_placed event handed to a member's socket carries the
\* (x, y, color) of a row that a placement had written to the store before
\* the event was sent, whoever called the broadcast entry point.
C20_EventsCarryWrittenRecords ==
    \A c \in Conns :
        \A i \in 1..Len(sent[c]) :
            sent[c][i].type = "pixel_placed" => WrittenBy(sent[c][i]) # {}

\* the members a broadcastToCanvas call deleted from its room
Dropped(issue) == issue.members \ (issue.open \ issue.threw)

\* the last message a handler sent to socket w is the room's count
ToldCount(w, id) ==
    /\ sent[w] # <<>>
    /\ sent[w][Len(sent[w])].type = "user_count_update"
    /\ sent[w][Len(sent[w])].count = SizeOf(canvasConnections, id)

\* C21: when a handler has changed the membership of a room (a join, or a
\* broadcast that deleted members it could not send to), every open member
\* that remains is sent a user_count_update with the room's size after the
\* change. Stated for handlers in which no send raised.
C21_CountFollowsMembership ==
    /\ (lastJoin.called /\ lastJoin.welcomed /\ lastIssue.threw = {}) =>
           \A w \in RoomsOfCanvas(lastJoin.canvasId) :
               wsock[w].readyState = OPEN => ToldCount(w, lastJoin.canvasId)
    /\ (lastIssue.called /\ lastIssue.threw = {} /\ Dropped(lastIssue) # {}) =>
           \A w \in RoomsOfCanvas(lastIssue.canvasId) :
               wsock[w].readyState = OPEN => ToldCount(w, lastIssue.canvasId)

-----------------------------------------------------------------------------
(* Claims about replaced sockets, checked under SpecClient *)

\* C23: the close event of a socket the client has replaced leaves the socket
\* wsRef holds alone: no retry timer is pending against a socket that is
\* connecting or open, an open socket keeps its heartbeat timer and its
\* Connected state, and once every replaced socket has closed the client is
\* Connected with the one open socket and no retry timer.
C23_StaleCloseLeavesCurrent ==
    /\ (lastClose.stale /\ wsRef \in {"CONNECTING", "OPEN"}) =>
          ~reconnectTimeout.pending
    /\ (lastClose.stale /\ wsRef = "OPEN") =>
          /\ heartbeatTimeout
          /\ connectionState = "connected"
    /\ (wsRef = "OPEN" /\ staleSockets = 0) =>
          /\ connectionState = "connected"
          /\ ~reconnectTimeout.pending

-----------------------------------------------------------------------------
(* Claims about the page's pixels map, checked under SpecPage *)

\* C24: when the page's effect has processed a pixel_placed event for (x, y),
\* the map holds exactly the event's record at (x, y), whatever it held
\* there before and whatever the two timestamps are, and every other cell
\* is as it was.
C24_EventOverwritesCell ==
    (lastEffect.ran /\ lastMessage.type = "pixel_placed") =>
        LET key == <<lastEffect.data.x, lastEffect.data.y>>
        IN  /\ DOMAIN pagePixels = DOMAIN lastEffect.before \cup {key}
            /\ pagePixels[key] = lastEffect.data
            /\ \A k \in DOMAIN lastEffect.before :
                  k # key => pagePixels[k] = lastEffect.before[k]

\* C24 witness: the effect has put an event's record over a record with a
\* later timestamp, while another cell was filled
C24_Witness ==
    /\ lastEffect.ran
    /\ LET key == <<lastEffect.data.x, lastEffect.data.y>>
       IN  /\ key \in DOMAIN lastEffect.before
           /\ lastEffect.before[key].timestamp > lastEffect.data.timestamp
           /\ pagePixels[key] = lastEffect.data
           /\ \E k \in DOMAIN lastEffect.before : k # key

\* C25: once the page's effect has run for the hook's latest message, every
\* pixel_placed event the hook was given has been put in the page's map: none
\* was skipped.
C25_EveryEventApplied ==
    handledNo = lastMessage.no => appliedNos = 1..heard

-----------------------------------------------------------------------------
(* Claims about the room server's membership, checked under SpecRoom *)

\* C26: a connection whose close the server has processed is a member of no
\* room, whatever join_canvas messages it sent before; a connection is a
\* member of at most one room.
C26_ClosedIsInNoRoom ==
    \A c \in Conns :
        /\ wsock[c].readyState = 3 => RoomsOf(c) = {}
        /\ Cardinality(RoomsOf(c)) <= 1

-----------------------------------------------------------------------------
(* Claims about the answer to a written placement, checked under SpecPlace *)

\* C27: a request whose write to the store was made is answered 200, also
\* when the broadcast that follows the write fails; the handler never
\* answers a written placement with an error.
C27_WrittenIsAnsweredSuccess ==
    \A r \in Reqs :
        (req[r].wrote /\ req[r].pc = "done") => req[r].status = 200

-----------------------------------------------------------------------------
(* Claims about the client's heartbeat timer, checked under SpecBeat *)

\* C28: the client closes its socket on its own only when no message of any
\* kind has arrived for 45 s; an open socket has never been silent for
\* longer; and the close that follows leaves the client Reconnecting with a
\* retry scheduled.
C28_ClosesOnlyAfterSilence ==
    /\ lastTimeout.fired => lastTimeout.quiet >= heartbeatTimeoutDelay
    /\ (wsRef = "OPEN" /\ connectionState = "connected") =>
          quiet <= heartbeatTimeoutDelay
    /\ (lastTimeout.fired /\ wsRef = "CLOSED" /\ lastClose.code # 1000
          /\ reconnectAttempts = 0) =>
          /\ connectionState = "reconnecting"
          /\ reconnectTimeout.pending

-----------------------------------------------------------------------------
(* Claims about the client's open handler, checked under SpecClient *)

\* C29: every open leaves the client Connected with its retry counter at 0
\* and has sent one join_canvas for the hook's canvas; while the socket is
\* open the counter and the count of automatic attempts stay 0, so a retry
\* scheduled at the closure of an open socket is the 0-th and waits 1000 ms.
C29_OpenResetsRetries ==
    /\ lastOpen.opened =>
          /\ lastOpen.connectionState = "connected"
          /\ lastOpen.reconnectAttempts = 0
          /\ lastOpen.sent = <<[type |-> "join_canvas", canvasId |-> PageCanvas,
                                userId |-> PageUser]>>
    /\ wsRef = "OPEN" => (reconnectAttempts = 0 /\ autoAttempts = 0)
    /\ (reconnectTimeout.pending /\ reconnectTimeout.attempt = 0) =>
          reconnectTimeout.delay = 1000

\* C29 witness: a socket made by the second retry in a row has opened, and
\* at its abnormal closure the retry is scheduled with 1000 ms
C29_Witness ==
    /\ lastOpen.opened /\ lastOpen.before = 2
    /\ wsRef = "CLOSED" /\ lastClose.code = 1006 /\ ~lastClose.stale
    /\ reconnectAttempts = 0
    /\ reconnectTimeout.pending /\ reconnectTimeout.delay = 1000

-----------------------------------------------------------------------------
(* Claims about the page's own placements, checked under SpecPage *)

\* C30: while a placement of the page awaits the answer to its request, the
\* page's map has held the chosen color at the chosen cell since the click.
C30_ShownBeforeResponse ==
    \A r \in Reqs :
        placing[r].pending => placing[r].shown = placing[r].color

=============================================================================
